---- MODULE Spec2Model ----
(***************************************************************************)
(* Model of the two integration-test scripts of ai-navigator:              *)
(*   backend_test.py               class AINavigatorAPITester, main()      *)
(*   backend_test_ai_navigator.py  class AINavigatorTester, main()         *)
(* A tester holds two counters (tests_run, tests_passed); run_test sends   *)
(* one HTTP request and compares the status code with the expected one.    *)
(* The remote server and the HTTP client are the environment: every call   *)
(* draws its outcome (a response or a transport exception) from Replies.   *)
(***************************************************************************)
EXTENDS Integers, Sequences, FiniteSets, TLC

VARIABLES impl, tests_run, tests_passed, invocations, last, clock, names,
          log, pc, exit_status

vars == <<impl, tests_run, tests_passed, invocations, last, clock, names,
          log, pc, exit_status>>

(* ---------------------------------------------------------------- bounds *)
MaxTests == 2          \* direct invocations of run_test on one tester
MaxClock == 3          \* last clock tick
TicksPerSecond == 2    \* resolution of the clock below one second

(* ----------------------------------------------------------- environment *)
API == "backend_test"
NAV == "backend_test_ai_navigator"
Impls == {API, NAV}

Methods == {"GET", "POST", "PUT"}
Statuses == {200, 500}
Bodies == {"json", "text", "empty"}

\* what requests.get / requests.post does: a response, or an exception
Replies ==
    [kind : {"response"}, status : Statuses, body : Bodies]
    \cup {[kind |-> "transport_error", status |-> 0, body |-> "empty"]}

\* the local name `response` before any assignment
Unbound == [kind |-> "unbound", status |-> 0, body |-> "empty"]

\* a server that answers 200 with a JSON body
Ok200 == [kind |-> "response", status |-> 200, body |-> "json"]

(* --------------------------------------------------------------- headers *)
CT == "Content-Type"
JSON == "application/json"

EmptyDict == [h \in {} |-> ""]
SetItem(d, k, v) == [h \in (DOMAIN d) \cup {k} |-> IF h = k THEN v ELSE d[h]]

None == [none |-> TRUE, map |-> EmptyDict]
Dict(d) == [none |-> FALSE, map |-> d]

ApiKeyHeaders == SetItem(SetItem(EmptyDict, "X-API-Key", "test-key-123"),
                         "X-API-Provider", "gemini")
PlainHeaders == SetItem(EmptyDict, CT, "text/plain")

HeaderArgs == {None, Dict(ApiKeyHeaders), Dict(PlainHeaders)}

\* backend_test.py: default header, or Content-Type forced into the caller's
API_headers(headers) ==
    IF headers.none THEN SetItem(EmptyDict, CT, JSON)
    ELSE SetItem(headers.map, CT, JSON)

\* backend_test_ai_navigator.py: default header only when none is passed
NAV_headers(headers) ==
    IF headers.none THEN SetItem(EmptyDict, CT, JSON)
    ELSE headers.map

(* ------------------------------------------------------------- run_test *)
\* the data argument (the JSON payload of a POST); None by default
NoData == [kind |-> "None", client_name |-> <<>>]
RoadmapData == [kind |-> "roadmap", client_name |-> <<>>]

\* the if/elif on method: one request for GET, one for POST, none otherwise
API_send(method, data, reply) ==
    IF method = "GET" THEN [sent |-> 1, json |-> NoData, response |-> reply]
    ELSE IF method = "POST" THEN [sent |-> 1, json |-> data, response |-> reply]
    ELSE [sent |-> 0, json |-> NoData, response |-> Unbound]

\* any method but GET is sent as a POST
NAV_send_else_post(method, data, reply) ==
    IF method = "GET" THEN [sent |-> 1, json |-> NoData, response |-> reply]
    ELSE [sent |-> 1, json |-> data, response |-> reply]

NAV_send(method, data, reply) ==
    IF method = "GET" THEN [sent |-> 1, json |-> NoData, response |-> reply]
    ELSE IF method = "POST" THEN [sent |-> 1, json |-> data, response |-> reply]
    ELSE [sent |-> 0, json |-> NoData, response |-> Unbound]

\* the exception the body of the try statement ends with, if any
TryException(response) ==
    IF response.kind = "transport_error" THEN "RequestException"
    ELSE IF response.kind = "unbound" THEN "UnboundLocalError"
    ELSE "none"

\* a handler that catches programming errors only
API_caught_no_transport == {"UnboundLocalError"}

\* classes that `except Exception` catches
API_caught == {"RequestException", "UnboundLocalError"}
NAV_caught == {"RequestException", "UnboundLocalError"}

\* any status below 400 counts as a match
NAV_matches_ok(status, expected_status) == status < 400

\* response.status_code == expected_status
API_matches(status, expected_status) == status = expected_status
NAV_matches(status, expected_status) == status = expected_status

\* response.json(): raises unless the body is JSON
JsonParses(response) == response.body = "json"

\* the result is the response itself, never parsed
NAV_parse_none(response) == "Response"

\* try: response.json() / except: {}
NAV_parse(response) == IF JsonParses(response) THEN "ParsedJson" ELSE "EmptyMapping"

\* backend_test.py lines 29-47
API_inspect(response, expected_status) ==
    LET exc == TryException(response) IN
    IF exc # "none"
    THEN IF exc \in API_caught
         THEN [success |-> FALSE, result |-> "None", raised |-> FALSE, passed |-> 0,
               printed |-> "error"]
         ELSE [success |-> FALSE, result |-> "None", raised |-> TRUE, passed |-> 0,
               printed |-> "none"]
    ELSE LET success == API_matches(response.status, expected_status) IN
         IF success
         THEN [success |-> TRUE, result |-> "Response", raised |-> FALSE, passed |-> 1,
               printed |-> IF response.body = "empty" THEN "none"
                           ELSE IF JsonParses(response) THEN "json" ELSE "preview"]
         ELSE [success |-> FALSE, result |-> "Response", raised |-> FALSE, passed |-> 0,
               printed |-> IF response.body = "empty" THEN "none" ELSE "preview"]

\* backend_test_ai_navigator.py lines 28-46
NAV_inspect(response, expected_status) ==
    LET exc == TryException(response) IN
    IF exc # "none"
    THEN IF exc \in NAV_caught
         THEN [success |-> FALSE, result |-> "EmptyMapping", raised |-> FALSE,
               passed |-> 0, printed |-> "error"]
         ELSE [success |-> FALSE, result |-> "EmptyMapping", raised |-> TRUE,
               passed |-> 0, printed |-> "none"]
    ELSE LET success == NAV_matches(response.status, expected_status) IN
         IF success
         THEN [success |-> TRUE,
               result |-> NAV_parse(response),
               raised |-> FALSE, passed |-> 1, printed |-> "none"]
         ELSE [success |-> FALSE,
               result |-> NAV_parse(response),
               raised |-> FALSE, passed |-> 0, printed |-> "text"]

\* the increment left out
API_count_same(run) == run
NAV_count_same(run) == run

\* self.tests_run += 1, before the try statement
API_count(run) == run + 1
NAV_count(run) == run + 1

\* one whole call of run_test of the class in use: what was sent, what came
\* back, what the call returned and what it added to the counters
Call(i, method, endpoint, expected_status, data, headers, reply) ==
    LET hdrs == IF i = API THEN API_headers(headers) ELSE NAV_headers(headers)
        snd  == IF i = API THEN API_send(method, data, reply)
                ELSE NAV_send(method, data, reply)
        out  == IF i = API THEN API_inspect(snd.response, expected_status)
                ELSE NAV_inspect(snd.response, expected_status)
    IN [method |-> method, endpoint |-> endpoint,
        expected_status |-> expected_status, headers |-> headers,
        sent |-> snd.sent, json |-> snd.json, hdrs |-> hdrs,
        response |-> snd.response,
        success |-> out.success, result |-> out.result, raised |-> out.raised,
        printed |-> out.printed,
        passed |-> out.passed]

\* no call yet
NoCall == Call(API, "PUT", "", 0, NoData, None, Ok200)

\* the effect of a call of run_test on the tester
run_test(method, endpoint, expected_status, data, headers, reply) ==
    LET c == Call(impl, method, endpoint, expected_status, data, headers, reply) IN
    /\ last' = c
    /\ invocations' = invocations + 1
    /\ tests_run' = IF impl = API THEN API_count(tests_run) ELSE NAV_count(tests_run)
    /\ tests_passed' = tests_passed + c.passed

(* ---------------------------------------------------------------- clock *)
\* datetime.now(): the clock, in ticks of 1/TicksPerSecond second
now == clock

\* strftime('%Y%m%d%H%M%S') within one day: the digits of HH, MM and SS
strftime(t) ==
    LET sec == t \div TicksPerSecond
        hh  == (sec \div 3600) % 24
        mm  == (sec \div 60) % 60
        ss  == sec % 60
    IN <<hh \div 10, hh % 10, mm \div 10, mm % 10, ss \div 10, ss % 10>>

\* f"test_client_{...}"
client_name(t) == <<"test_client_">> \o strftime(t)

(* ------------------------------------------------------------ scenarios *)
\* the status write before the status read
API_main_swapped == <<"test_root_endpoint", "test_create_status", "test_status_endpoint",
                      "test_generate_roadmap_free_query",
                      "test_generate_roadmap_with_api_key">>

\* the statements of main(), in order
API_main == <<"test_root_endpoint", "test_status_endpoint", "test_create_status",
              "test_generate_roadmap_free_query",
              "test_generate_roadmap_with_api_key">>
NAV_main == <<"test_root", "test_status">>

main_body == IF impl = API THEN API_main ELSE NAV_main

\* a scenario runs when a caller invokes it on the tester, or when main()
\* has reached the statement that calls it
Invoked(name) ==
    \/ pc = "direct" /\ tests_run < MaxTests
    \/ /\ pc = "main"
       /\ Len(log) < Len(main_body)
       /\ main_body[Len(log) + 1] = name

\* what main() has done so far: the scenario called, the request it made and
\* whether it passed
Entry(name, c) ==
    [scenario |-> name, method |-> c.method, endpoint |-> c.endpoint,
     credentials |-> ~c.headers.none, sent |-> c.sent,
     status |-> c.response.status, success |-> c.success]

\* what is left of a scenario call: main() goes on to its next statement,
\* unless the call raised
Returned(name) ==
    /\ log' = IF pc = "main" THEN Append(log, Entry(name, last'))
              ELSE log
    /\ pc' = IF pc = "main" /\ last'.raised THEN "aborted" ELSE pc
    /\ UNCHANGED <<impl, clock, exit_status>>

test_root_endpoint ==
    /\ impl = API
    /\ Invoked("test_root_endpoint")
    /\ \E reply \in Replies : run_test("GET", "api", 200, NoData, None, reply)
    /\ Returned("test_root_endpoint")
    /\ UNCHANGED names

test_status_endpoint ==
    /\ impl = API
    /\ Invoked("test_status_endpoint")
    /\ \E reply \in Replies : run_test("GET", "api/status", 200, NoData, None, reply)
    /\ Returned("test_status_endpoint")
    /\ UNCHANGED names

test_create_status ==
    /\ impl = API
    /\ Invoked("test_create_status")
    /\ LET data == [kind |-> "status", client_name |-> client_name(now)] IN
       /\ \E reply \in Replies :
             run_test("POST", "api/status", 200, data, None, reply)
       /\ names' = Append(names, [at |-> now, client_name |-> data.client_name])
    /\ Returned("test_create_status")

test_generate_roadmap_free_query ==
    /\ impl = API
    /\ Invoked("test_generate_roadmap_free_query")
    /\ \E reply \in Replies :
          run_test("POST", "api/generate", 200, RoadmapData, None, reply)
    /\ Returned("test_generate_roadmap_free_query")
    /\ UNCHANGED names

test_generate_roadmap_with_api_key ==
    /\ impl = API
    /\ Invoked("test_generate_roadmap_with_api_key")
    /\ \E reply \in Replies :
          run_test("POST", "api/generate", 200, RoadmapData, Dict(ApiKeyHeaders), reply)
    /\ Returned("test_generate_roadmap_with_api_key")
    /\ UNCHANGED names

test_status ==
    /\ impl = NAV
    /\ Invoked("test_status")
    /\ \E reply \in Replies : run_test("GET", "api/status", 200, NoData, None, reply)
    /\ Returned("test_status")
    /\ UNCHANGED names

test_root ==
    /\ impl = NAV
    /\ Invoked("test_root")
    /\ \E reply \in Replies : run_test("GET", "api", 200, NoData, None, reply)
    /\ Returned("test_root")
    /\ UNCHANGED names

\* a caller invokes run_test itself, with arguments of its own
DirectRunTest ==
    /\ pc = "direct"
    /\ tests_run < MaxTests
    /\ \E method \in Methods, expected_status \in Statuses,
          headers \in HeaderArgs, reply \in Replies :
          run_test(method, "api", expected_status, NoData, headers, reply)
    /\ UNCHANGED <<impl, clock, names, log, pc, exit_status>>

\* success as soon as one scenario passed
NAV_exit_any(passed, run) == IF passed > 0 THEN 0 ELSE 1

\* the last statement of main(): return 0 if tests_passed == tests_run else 1
API_exit(passed, run) == IF passed = run THEN 0 ELSE 1
NAV_exit(passed, run) == IF passed = run THEN 0 ELSE 1

main_return ==
    /\ pc = "main"
    /\ Len(log) = Len(main_body)
    /\ exit_status' = IF impl = API THEN API_exit(tests_passed, tests_run)
                      ELSE NAV_exit(tests_passed, tests_run)
    /\ pc' = "returned"
    /\ UNCHANGED <<impl, tests_run, tests_passed, invocations, last, clock,
                   names, log>>

\* time passes: part of a second, or a whole second
Tick ==
    /\ \E d \in {1, TicksPerSecond} :
          /\ clock + d <= MaxClock
          /\ clock' = clock + d
    /\ UNCHANGED <<impl, tests_run, tests_passed, invocations, last, names,
                   log, pc, exit_status>>

(* -------------------------------------------------------- specification *)
\* a freshly constructed tester of either script, used by main() or by a
\* caller of its methods
Init ==
    /\ impl \in Impls
    /\ pc \in {"direct", "main"}
    /\ tests_run = 0
    /\ tests_passed = 0
    /\ invocations = 0
    /\ last = NoCall
    /\ clock = 0
    /\ names = <<>>
    /\ log = <<>>
    /\ exit_status = -1

Next ==
    \/ DirectRunTest
    \/ test_root_endpoint
    \/ test_status_endpoint
    \/ test_create_status
    \/ test_generate_roadmap_free_query
    \/ test_generate_roadmap_with_api_key
    \/ test_status
    \/ test_root
    \/ main_return
    \/ Tick

Spec == Init /\ [][Next]_vars

\* main() is a sequential program: while it has a statement left and every
\* HTTP call comes back, it executes it
MainStep ==
    /\ pc = "main"
    /\ \/ test_root_endpoint
       \/ test_status_endpoint
       \/ test_create_status
       \/ test_generate_roadmap_free_query
       \/ test_generate_roadmap_with_api_key
       \/ test_status
       \/ test_root
       \/ main_return

FairSpec == Spec /\ WF_vars(MainStep)

TypeOK ==
    /\ impl \in Impls
    /\ pc \in {"direct", "main", "returned", "aborted"}
    /\ tests_run \in Nat
    /\ tests_passed \in Nat
    /\ exit_status \in {-1, 0, 1}

(* --------------------------------------------------------------- claims *)
\* a step that is one invocation of run_test
Invocation == invocations' = invocations + 1

SomeEntry(P(_)) == \E k \in 1..Len(log) : P(log[k])

\* C1: every invocation of run_test adds exactly 1 to tests_run and at most 1
\* to tests_passed, whatever its outcome; no other step changes a counter.
C1_CountersPerInvocation ==
    [][/\ invocations' \in {invocations, invocations + 1}
       /\ Invocation =>
            /\ tests_run' = tests_run + 1
            /\ tests_passed' \in {tests_passed, tests_passed + 1}
       /\ ~Invocation => UNCHANGED <<tests_run, tests_passed>>]_vars

C1_Witness ==
    /\ impl = API
    /\ invocations = 2
    /\ tests_run = 2
    /\ tests_passed = 1
    /\ last.response.kind = "unbound"

\* C2: when run_test receives a response, it returns True exactly when the
\* status code equals expected_status, and tests_passed is incremented in
\* that invocation exactly when it returns True.
C2_SuccessIffStatusMatches ==
    [][(Invocation /\ last'.response.kind = "response") =>
         /\ last'.success <=> (last'.response.status = last'.expected_status)
         /\ last'.success => tests_passed' = tests_passed + 1
         /\ ~last'.success => tests_passed' = tests_passed]_vars

C2_Witness ==
    /\ impl = NAV
    /\ last.response.kind = "response"
    /\ last.response.status = 200
    /\ last.expected_status = 500
    /\ ~last.success
    /\ invocations = 2
    /\ tests_passed = 1

EmptyResults == {"None", "EmptyMapping"}

\* C3: when the HTTP call fails at the transport level, run_test does not
\* raise: it returns False and an empty result, tests_passed is unchanged and
\* tests_run has been incremented by 1.
C3_TransportFailureIsCaught ==
    [][(Invocation /\ last'.response.kind = "transport_error") =>
         /\ ~last'.raised
         /\ ~last'.success
         /\ last'.result \in EmptyResults
         /\ tests_passed' = tests_passed
         /\ tests_run' = tests_run + 1]_vars

C3_Witness ==
    /\ impl = API
    /\ last.response.kind = "transport_error"
    /\ last.sent = 1
    /\ last.result = "None"
    /\ tests_run = 2
    /\ tests_passed = 1

IsFailed(e) == ~e.success
IsStatusRead500(e) ==
    e.method = "GET" /\ e.endpoint = "api/status" /\ e.status = 500

\* C4: main returns 0 exactly when every scenario it invoked passed
\* (tests_passed = tests_run at the end) and 1 when at least one failed; a
\* server answering 500 to GET api/status gives exit status 1.
C4_ExitStatus ==
    pc = "returned" =>
        /\ exit_status \in {0, 1}
        /\ exit_status = 0 <=> ~SomeEntry(IsFailed)
        /\ exit_status = 0 <=> tests_passed = tests_run
        /\ SomeEntry(IsStatusRead500) => exit_status = 1

C4_Witness ==
    /\ impl = NAV
    /\ pc = "returned"
    /\ exit_status = 1
    /\ tests_passed = 1
    /\ SomeEntry(IsStatusRead500)

\* the request each scenario makes, in the order of the scenario set
FixedOrder ==
    << [method |-> "GET",  endpoint |-> "api",          credentials |-> FALSE],
       [method |-> "GET",  endpoint |-> "api/status",   credentials |-> FALSE],
       [method |-> "POST", endpoint |-> "api/status",   credentials |-> FALSE],
       [method |-> "POST", endpoint |-> "api/generate", credentials |-> FALSE],
       [method |-> "POST", endpoint |-> "api/generate", credentials |-> TRUE] >>

Requested(e) ==
    [method |-> e.method, endpoint |-> e.endpoint, credentials |-> e.credentials]

Is200(e) == e.status = 200
Not200(e) == e.status # 200

\* C5: whatever the outcome of each scenario, main invokes all its scenarios
\* in the fixed order, one request each, and then terminates with tests_run
\* equal to the number of scenarios (5 for backend_test.py); with 200 for all
\* five calls the tally is 5/5 and the exit status 0.
C5_AllScenariosRunInOrder ==
    /\ (pc = "main") ~> (pc = "returned")
    /\ [](pc # "aborted")
    /\ [](pc \in {"main", "returned"} =>
            /\ Len(log) <= Len(FixedOrder)
            /\ \A k \in 1..Len(log) :
                  Requested(log[k]) = FixedOrder[k] /\ log[k].sent = 1)
    /\ [](pc = "returned" =>
            /\ tests_run = Len(log)
            /\ impl = API => tests_run = 5
            /\ impl = NAV => tests_run = 2
            /\ (impl = API /\ ~SomeEntry(Not200)) =>
                  tests_passed = 5 /\ exit_status = 0)

C5_Witness ==
    /\ impl = API
    /\ pc = "returned"
    /\ tests_run = 5
    /\ tests_passed = 2
    /\ log[1].status = 0
    /\ log[2].status = 500
    /\ log[5].success

\* C6: the headers of every request contain Content-Type: application/json;
\* with no headers passed they are exactly that header, and with headers
\* passed every header of the caller is kept and Content-Type is forced.
C6_ContentTypeAlwaysSent ==
    last.sent = 1 =>
        /\ CT \in DOMAIN last.hdrs
        /\ last.hdrs[CT] = JSON
        /\ last.headers.none => last.hdrs = SetItem(EmptyDict, CT, JSON)
        /\ ~last.headers.none =>
              \A h \in (DOMAIN last.headers.map) \ {CT} :
                  h \in DOMAIN last.hdrs /\ last.hdrs[h] = last.headers.map[h]

\* C7: any two invocations of test_create_status send different client_name
\* values.
C7_ClientNamesUnique ==
    \A j, k \in 1..Len(names) :
        j # k => names[j].client_name # names[k].client_name

NonJsonResponse(c) == c.response.kind = "response" /\ c.response.body # "json"

\* C8 as stated: with a body that is not valid JSON run_test does not raise
\* and returns an empty mapping, for a matching and a non-matching status
\* alike, the success flag following the status comparison alone.
C8_NonJsonGivesEmptyMapping ==
    NonJsonResponse(last) =>
        /\ ~last.raised
        /\ last.result = "EmptyMapping"
        /\ last.success <=> (last.response.status = last.expected_status)

\* C8 amended: with a body that is not valid JSON run_test does not raise;
\* AINavigatorTester.run_test returns an empty mapping and
\* AINavigatorAPITester.run_test returns the response object, for a matching
\* and a non-matching status alike; the success flag and the counters follow
\* the status comparison alone.
C8_NonJsonFallback ==
    [][(Invocation /\ NonJsonResponse(last')) =>
         /\ ~last'.raised
         /\ impl = NAV => last'.result = "EmptyMapping"
         /\ impl = API => last'.result = "Response"
         /\ last'.success <=> (last'.response.status = last'.expected_status)
         /\ tests_run' = tests_run + 1
         /\ tests_passed' = tests_passed + (IF last'.success THEN 1 ELSE 0)]_vars

C8_Witness ==
    /\ impl = NAV
    /\ NonJsonResponse(last)
    /\ last.response.body = "text"
    /\ last.response.status = 500
    /\ last.expected_status = 200
    /\ last.result = "EmptyMapping"
    /\ tests_run = 2
    /\ tests_passed = 1

\* C9: run_test sends exactly one request for GET and for POST and none for
\* any other method; in that case the unbound reference is caught inside
\* run_test, which returns False without raising, with tests_run incremented
\* and tests_passed unchanged.
C9_OneRequestOrNone ==
    [][Invocation =>
         /\ last'.method \in {"GET", "POST"} => last'.sent = 1
         /\ last'.method \notin {"GET", "POST"} =>
              /\ last'.sent = 0
              /\ last'.response = Unbound
              /\ ~last'.raised
              /\ ~last'.success
              /\ tests_run' = tests_run + 1
              /\ tests_passed' = tests_passed]_vars

C9_Witness ==
    /\ impl = NAV
    /\ invocations = 2
    /\ last.method = "PUT"
    /\ last.sent = 0
    /\ last.result = "EmptyMapping"
    /\ tests_run = 2
    /\ tests_passed = 1

\* C10: both counters start at 0 and never decrease, and in every reachable
\* state 0 <= tests_passed <= tests_run.
C10_PassedAtMostRun ==
    /\ tests_run = 0 /\ tests_passed = 0
    /\ [](0 <= tests_passed /\ tests_passed <= tests_run)
    /\ [][tests_run' >= tests_run /\ tests_passed' >= tests_passed]_vars

C10_Witness ==
    /\ impl = API
    /\ pc = "returned"
    /\ tests_run = 5
    /\ tests_passed = 3
    /\ ~last.success

====
